---- MODULE Spec2Model ----
(***************************************************************************)
(* A model of spectra's front end: the token model (token.rs), the Lexer   *)
(* (lexer.rs), the AST (ast.rs) and the recursive-descent / precedence-    *)
(* climbing Parser (parser.rs).                                            *)
(*                                                                         *)
(* A character is a string: an ASCII character is itself ("a", "+"), any   *)
(* other Unicode scalar value is named by its code point ("U+20AC").  A    *)
(* source text is a sequence of characters.  Option<T> is a sequence of    *)
(* length at most one: None is << >>, Some(x) is << x >>.                  *)
(***************************************************************************)
EXTENDS Integers, Sequences, FiniteSets, TLC

VARIABLES
    source,     \* the source text handed to Lexer::new / Parser::new
    lexer,      \* the state of a Lexer iterated directly (as lexer.rs's tests do)
    emitted,    \* what the successive calls of Lexer::next returned (Option<Token>s)
    outcome     \* what the Parser entry point that was run on the source returned

vars == <<source, lexer, emitted, outcome>>

(***************************************************************************)
(* Bounds of the model.                                                    *)
(***************************************************************************)
MaxLen == 4         \* characters in a source drawn character by character
MaxToks == 3        \* lexemes in a source drawn lexeme by lexeme
MaxOps == 2         \* binary operators in an operator chain
MaxCallsOver == 2   \* calls of Lexer::next observed beyond the source's length
MaxStmtToks == 3    \* lexemes after the head of a statement
MaxCallToks == 4    \* lexemes after the callee and ( of a call
MaxFunToks == 3     \* lexemes after the head of a function literal
MaxAffix == 1       \* characters before and after a keyword spelling
MaxBlanks == 2      \* characters in a source drawn from the whitespace set
MaxOpChars == 4     \* characters in a source drawn from the operator characters
MaxBlockToks == 5   \* lexemes after the { of a statements block
MaxNumChars == 3    \* digits, dots and blanks before the long digit run of a source
MaxPostfixToks == 4 \* lexemes in a source of operands, binary and postfix operators

(***************************************************************************)
(* Characters.                                                             *)
(***************************************************************************)
NUL == "U+0000"

Letters ==
    {"a", "b", "c", "d", "e", "f", "g", "h", "i", "j", "k", "l", "m",
     "n", "o", "p", "q", "r", "s", "t", "u", "v", "w", "x", "y", "z"}

Digits == {"0", "1", "2", "3", "4", "5", "6", "7", "8", "9"}

\* Characters that are neither identifier characters, digits, whitespace
\* nor matched by an arm of Lexer::next.
OtherChars == {"=", "@", "U+20AC", "U+1F600"}

PunctuationChars ==
    {"+", "-", "*", "/", "(", ")", "[", "]", "{", "}", ";", ",", ".", "\""}

WhitespaceChars ==
    {"\t", "\n", "U+000B", "\f", "\r", " ",
     "U+0085", "U+200E", "U+200F", "U+2028", "U+2029"}

Char ==
    Letters \cup Digits \cup OtherChars \cup PunctuationChars
        \cup WhitespaceChars \cup {NUL, "_", "U+00E9"}

\* char::len_utf8
len_utf8(c) ==
    CASE c \in {"U+0085", "U+00E9"} -> 2
      [] c \in {"U+200E", "U+200F", "U+2028", "U+2029", "U+20AC"} -> 3
      [] c \in {"U+1F600"} -> 4
      [] OTHER -> 1

\* a whitespace test that knows the ASCII characters only: the slip of
\* leaving out the Unicode ones.
is_whitespace_ascii(c) == c \in {"\t", "\n", "U+000B", "\f", "\r", " "}

is_whitespace(c) == c \in WhitespaceChars

is_ascii_digit(c) == c \in Digits

is_id_start(c) == c = "_" \/ c \in Letters \cup {"U+00E9"}

is_id_continue(c) == c \in Letters \cup Digits \cup {"_", "U+00E9"}

RECURSIVE ByteLen(_)
\* str::len: the UTF-8 length of a text
ByteLen(s) == IF s = << >> THEN 0 ELSE len_utf8(Head(s)) + ByteLen(Tail(s))

\* &s[start..end]: the characters whose bytes lie in [start, end)
str_slice(s, start, end) ==
    LET idx == {k \in 1..Len(s) :
                   /\ ByteLen(SubSeq(s, 1, k - 1)) >= start
                   /\ ByteLen(SubSeq(s, 1, k)) <= end}
        lo == CHOOSE k \in idx : \A j \in idx : k <= j
        hi == CHOOSE k \in idx : \A j \in idx : k >= j
    IN  IF idx = {} THEN << >> ELSE SubSeq(s, lo, hi)

(***************************************************************************)
(* token.rs                                                                *)
(***************************************************************************)
None == << >>
Some(x) == << x >>

Location(start, end) == [start |-> start, end |-> end]

\* RawToken: every variant is a record of the same shape; the fields a
\* variant does not carry hold "" / << >>.  The u64 of an IntegerLiteral is
\* held as its decimal digits, most significant first, with no leading zero.
RawToken(tag, kind, text, value) ==
    [tag |-> tag, kind |-> kind, text |-> text, value |-> value]

Identifier(text) == RawToken("Identifier", "", text, << >>)
StringLiteral(text) == RawToken("StringLiteral", "", text, << >>)
Keyword(k) == RawToken("Keyword", k, << >>, << >>)
Punctuation(p) == RawToken("Punctuation", p, << >>, << >>)
BoolLiteral(b) == RawToken("BoolLiteral", IF b THEN "true" ELSE "false", << >>, << >>)
IntegerLiteral(v) == RawToken("IntegerLiteral", "", << >>, v)
UnexpectedChar(c) == RawToken("UnexpectedChar", c, << >>, << >>)

Token(raw, location) == [raw |-> raw, location |-> location]

\* enum Precedence, by its derived order
Lowest == 0
Assign == 1
Sum == 2
Product == 3
Power == 4
Call == 5
FieldAccess == 6

\* A Product level for Minus: the slip of listing Minus with Star and Slash.
PunctuationPrecedenceMinusProduct(p) ==
    CASE p \in {"PlusEq", "MinusEq", "StarEq", "SlashEq", "PlusPlus", "MinusMinus"} -> Assign
      [] p \in {"Plus"} -> Sum
      [] p \in {"Star", "Slash", "Minus"} -> Product
      [] p = "StarStar" -> Power
      [] p = "OpenParent" -> Call
      [] p = "Dot" -> FieldAccess
      [] OTHER -> Lowest

\* A Sum level for Star: the slip of listing Star with Plus and Minus.
PunctuationPrecedenceStarSum(p) ==
    CASE p \in {"PlusEq", "MinusEq", "StarEq", "SlashEq", "PlusPlus", "MinusMinus"} -> Assign
      [] p \in {"Plus", "Minus", "Star"} -> Sum
      [] p \in {"Slash"} -> Product
      [] p = "StarStar" -> Power
      [] p = "OpenParent" -> Call
      [] p = "Dot" -> FieldAccess
      [] OTHER -> Lowest

\* A Call level for PlusPlus and MinusMinus: postfix operators that bind to
\* the operand next to them.
PunctuationPrecedencePostfixCall(p) ==
    CASE p \in {"PlusEq", "MinusEq", "StarEq", "SlashEq"} -> Assign
      [] p \in {"Plus", "Minus"} -> Sum
      [] p \in {"Star", "Slash"} -> Product
      [] p = "StarStar" -> Power
      [] p \in {"OpenParent", "PlusPlus", "MinusMinus"} -> Call
      [] p = "Dot" -> FieldAccess
      [] OTHER -> Lowest

\* impl From<Punctuation> for Precedence
PunctuationPrecedence(p) ==
    CASE p \in {"PlusEq", "MinusEq", "StarEq", "SlashEq", "PlusPlus", "MinusMinus"} -> Assign
      [] p \in {"Plus", "Minus"} -> Sum
      [] p \in {"Star", "Slash"} -> Product
      [] p = "StarStar" -> Power
      [] p = "OpenParent" -> Call
      [] p = "Dot" -> FieldAccess
      [] OTHER -> Lowest

\* impl From<RawToken> for Precedence
RawTokenPrecedence(raw) ==
    IF raw.tag = "Punctuation" THEN PunctuationPrecedence(raw.kind) ELSE Lowest

\* impl From<Token> for Precedence
TokenPrecedence(token) == RawTokenPrecedence(token.raw)

\* impl fmt::Display for Punctuation, the backquotes of the texts written
\* as apostrophes.  Punctuation::Eq, which parse_statement names, is no
\* variant of the enum and has no arm in the source; it is given the text
\* of the same form.
PunctuationDisplay(p) ==
    CASE p = "Plus" -> "'+'"
      [] p = "PlusPlus" -> "'++'"
      [] p = "PlusEq" -> "'+='"
      [] p = "Minus" -> "'-'"
      [] p = "MinusMinus" -> "'--'"
      [] p = "MinusEq" -> "'-='"
      [] p = "Star" -> "'*'"
      [] p = "StarStar" -> "'**'"
      [] p = "StarEq" -> "'*='"
      [] p = "Slash" -> "'/'"
      [] p = "SlashEq" -> "'/='"
      [] p = "OpenParent" -> "'('"
      [] p = "CloseParent" -> "')'"
      [] p = "OpenBracket" -> "'['"
      [] p = "CloseBracket" -> "']'"
      [] p = "OpenBrace" -> "'{'"
      [] p = "CloseBrace" -> "'}'"
      [] p = "Semicolon" -> "';'"
      [] p = "Comma" -> "','"
      [] p = "Dot" -> "'.'"
      [] p = "Eq" -> "'='"

\* impl fmt::Display for RawToken, for the variants consume is called with
RawTokenDisplay(raw) ==
    IF raw.tag = "Punctuation" THEN PunctuationDisplay(raw.kind) ELSE raw.kind

\* static KEYWORDS: the spellings and the raw token of each
KEYWORDS ==
    { << <<"t", "r", "u", "e">>, BoolLiteral(TRUE) >>,
      << <<"f", "a", "l", "s", "e">>, BoolLiteral(FALSE) >>,
      << <<"f", "u", "n">>, Keyword("Fun") >>,
      << <<"c", "l", "a", "s", "s">>, Keyword("Class") >>,
      << <<"w", "h", "i", "l", "e">>, Keyword("While") >>,
      << <<"i", "f">>, Keyword("If") >>,
      << <<"e", "l", "s", "e">>, Keyword("Else") >>,
      << <<"v", "a", "r">>, Keyword("Var") >>,
      << <<"b", "r", "e", "a", "k">>, Keyword("Break") >>,
      << <<"c", "o", "n", "t", "i", "n", "u", "e">>, Keyword("Continue") >>,
      << <<"r", "e", "t", "u", "r", "n">>, Keyword("Return") >> }

\* a lookup that finds a keyword in any text that starts with its
\* spelling: the slip of matching the keyword as a prefix.
KeywordsGetPrefix(text) ==
    LET found == {e \in KEYWORDS :
                     Len(e[1]) <= Len(text) /\ SubSeq(text, 1, Len(e[1])) = e[1]}
    IN  IF found # {} THEN Some((CHOOSE e \in found : TRUE)[2]) ELSE None

\* KEYWORDS.get(text)
KeywordsGet(text) ==
    IF \E e \in KEYWORDS : e[1] = text
    THEN Some((CHOOSE e \in KEYWORDS : e[1] = text)[2])
    ELSE None

(***************************************************************************)
(* lexer.rs                                                                *)
(***************************************************************************)

\* Lexer::new.  The field panicked records that an unwrap() inside the lexer
\* panicked: the run is over, whatever the caller would have done next.
LexerNew(src) ==
    [source |-> src,
     chars |-> IF Len(src) >= 2 THEN SubSeq(src, 3, Len(src)) ELSE << >>,
     offset |-> 0,
     current |-> IF Len(src) >= 1 THEN src[1] ELSE NUL,
     next |-> IF Len(src) >= 2 THEN src[2] ELSE NUL,
     panicked |-> FALSE]

\* Lexer::advance
advance(lx) ==
    [lx EXCEPT !.current = lx.next,
               !.next = IF lx.chars = << >> THEN NUL ELSE Head(lx.chars),
               !.chars = IF lx.chars = << >> THEN << >> ELSE Tail(lx.chars),
               !.offset = lx.offset + len_utf8(lx.current)]

\* Lexer::advance_twice
advance_twice(lx) == advance(advance(lx))

\* Lexer::eof
eof(lx) == lx.current = NUL

RECURSIVE advance_while(_, _, _)
\* Lexer::advance_while; f is the closure as a function of the current character
advance_while(lx, start_offset, f) ==
    IF f[lx.current] /\ ~eof(lx)
    THEN advance_while(advance(lx), start_offset, f)
    ELSE [lexer |-> lx, text |-> str_slice(lx.source, start_offset, lx.offset)]

RECURSIVE skip_whitespaces(_)
\* Lexer::skip_whitespaces
skip_whitespaces(lx) ==
    IF is_whitespace(lx.current) THEN skip_whitespaces(advance(lx)) ELSE lx

\* Lexer::current_char_location
current_char_location(lx) == Location(lx.offset, lx.offset + 1)

\* Lexer::location_from
location_from(lx, start_offset) == Location(start_offset, lx.offset)

\* Lexer::advance_with
advance_with(lx, raw) ==
    [lexer |-> advance(lx), token |-> Some(Token(raw, current_char_location(lx)))]

\* advance_twice_with that advances once: the slip of consuming only the
\* first character of a two-character token.
advance_once_with_pair(lx, raw) ==
    [lexer |-> advance(lx),
     token |-> Some(Token(raw, Location(lx.offset, lx.offset + 2)))]

\* Lexer::advance_twice_with
advance_twice_with(lx, raw) ==
    [lexer |-> advance_twice(lx),
     token |-> Some(Token(raw, Location(lx.offset, lx.offset + 2)))]

\* The element of a one-element set: The({e(x) : x \in {v}}) is e(v), with v
\* computed once (let x = v; e(x)).
The(S) == CHOOSE x \in S : TRUE

\* Lexer::next_identifier_or_keyword_token
next_identifier_or_keyword_token(lx) ==
    The({ IF KeywordsGet(r.text) # None
          THEN [lexer |-> r.lexer,
                token |-> Some(Token(KeywordsGet(r.text)[1],
                                     location_from(r.lexer, lx.offset)))]
          ELSE [lexer |-> r.lexer,
                token |-> Some(Token(Identifier(r.text),
                                     location_from(r.lexer, lx.offset)))]
          : r \in {advance_while(lx, lx.offset, [c \in Char |-> is_id_continue(c)])} })

DigitValue(c) ==
    CASE c = "0" -> 0 [] c = "1" -> 1 [] c = "2" -> 2 [] c = "3" -> 3
      [] c = "4" -> 4 [] c = "5" -> 5 [] c = "6" -> 6 [] c = "7" -> 7
      [] c = "8" -> 8 [] c = "9" -> 9

RECURSIVE StripZeros(_)
StripZeros(digits) ==
    IF digits # << >> /\ Head(digits) = "0" THEN StripZeros(Tail(digits)) ELSE digits

\* the value of a run of ASCII digits, as the digits of the number
DecimalValue(digits) ==
    IF StripZeros(digits) = << >> THEN << 0 >>
    ELSE [i \in 1..Len(StripZeros(digits)) |-> DigitValue(StripZeros(digits)[i])]

\* u64::MAX, 18446744073709551615, digit by digit
U64MaxDigits ==
    <<1, 8, 4, 4, 6, 7, 4, 4, 0, 7, 3, 7, 0, 9, 5, 5, 1, 6, 1, 5>>

\* A conversion that looks at the number of digits alone.
ParseU64FailsByLength(digits) ==
    digits = << >> \/ Len(StripZeros(digits)) > Len(U64MaxDigits)

\* str::parse::<u64> returns Err for a digit run above u64::MAX (and for an
\* empty text)
ParseU64Fails(digits) ==
    LET d == StripZeros(digits)
        n == Len(U64MaxDigits)
    IN  \/ digits = << >>
        \/ Len(d) > n
        \/ /\ Len(d) = n
           /\ \E k \in 1..n :
                /\ \A j \in 1..(k - 1) : DigitValue(d[j]) = U64MaxDigits[j]
                /\ DigitValue(d[k]) > U64MaxDigits[k]

\* Lexer::next_number_token; parse().unwrap() panics when parse fails
next_number_token(lx) ==
    The({ IF ParseU64Fails(r.text)
          THEN [lexer |-> [r.lexer EXCEPT !.panicked = TRUE], token |-> None]
          ELSE [lexer |-> r.lexer,
                token |-> Some(Token(IntegerLiteral(DecimalValue(r.text)),
                                     location_from(r.lexer, lx.offset)))]
          : r \in {advance_while(lx, lx.offset, [c \in Char |-> is_ascii_digit(c)])} })

\* Lexer::next_string_token
next_string_token(lx) ==
    The({ [lexer |-> r.lexer,
           token |-> Some(Token(StringLiteral(r.text),
                                location_from(r.lexer, lx.offset)))]
          : r \in {advance_while(lx, lx.offset, [c \in Char |-> c # "\""])} })

\* the arms of Lexer::next that look at the current character alone
SingleCharPunctuation(c) ==
    CASE c = "(" -> "OpenParent"
      [] c = ")" -> "CloseParent"
      [] c = "[" -> "OpenBracket"
      [] c = "]" -> "CloseBracket"
      [] c = "{" -> "OpenBrace"
      [] c = "}" -> "CloseBrace"
      [] c = ";" -> "Semicolon"
      [] c = "," -> "Comma"
      [] c = "." -> "Dot"

\* the match of Lexer::next on (self.current, self.next), arm by arm
next_match(lx, c, n) ==
    IF c = "+" /\ n = "+" THEN advance_twice_with(lx, Punctuation("PlusPlus"))
    ELSE IF c = "+" /\ n = "=" THEN advance_twice_with(lx, Punctuation("PlusEq"))
    ELSE IF c = "+" THEN advance_with(lx, Punctuation("Plus"))
    ELSE IF c = "-" /\ n = "-" THEN advance_twice_with(lx, Punctuation("MinusMinus"))
    ELSE IF c = "-" /\ n = "=" THEN advance_twice_with(lx, Punctuation("MinusEq"))
    ELSE IF c = "-" THEN advance_with(lx, Punctuation("Minus"))
    ELSE IF c = "/" /\ n = "=" THEN advance_twice_with(lx, Punctuation("SlashEq"))
    ELSE IF c = "*" /\ n = "=" THEN advance_twice_with(lx, Punctuation("StarEq"))
    ELSE IF c = "*" /\ n = "*" THEN advance_with(lx, Punctuation("StarStar"))
    ELSE IF c = "*" THEN advance_with(lx, Punctuation("Star"))
    ELSE IF c = "/" THEN advance_with(lx, Punctuation("Slash"))
    ELSE IF c \in {"(", ")", "[", "]", "{", "}", ";", ",", "."}
         THEN advance_with(lx, Punctuation(SingleCharPunctuation(c)))
    ELSE IF c = "\"" THEN next_string_token(lx)
    ELSE IF is_id_start(c) THEN next_identifier_or_keyword_token(lx)
    ELSE IF is_ascii_digit(c) THEN next_number_token(lx)
    ELSE [lexer |-> lx,
          token |-> Some(Token(UnexpectedChar(c), current_char_location(lx)))]

\* <Lexer as Iterator>::next: [lexer |-> the lexer after the call,
\* token |-> the Option<Token> returned]
Lexer_next(lx0) ==
    The({ IF lx.panicked \/ eof(lx) THEN [lexer |-> lx, token |-> None]
          ELSE next_match(lx, lx.current, lx.next)
          : lx \in {skip_whitespaces(lx0)} })

(***************************************************************************)
(* ast.rs                                                                  *)
(***************************************************************************)
IdentifierAST(identifier, location) ==
    [identifier |-> identifier, location |-> location]

\* ast::Literal with its RawLiteral: Integer(value), Bool(kind), String(text)
Literal(raw, location) == [raw |-> raw, location |-> location]

ExprIdentifier(id) == [tag |-> "Identifier", identifier |-> id]
ExprLiteral(lit) == [tag |-> "Literal", literal |-> lit]
ExprBinary(left, right, operator, location) ==
    [tag |-> "Binary", left |-> left, right |-> right, operator |-> operator,
     location |-> location]
ExprPostfix(left, operator, location) ==
    [tag |-> "Postfix", left |-> left, operator |-> operator, location |-> location]
ExprFieldAccess(left, right, location) ==
    [tag |-> "FieldAccess", left |-> left, right |-> right, location |-> location]
ExprCall(callee, arguments, location) ==
    [tag |-> "Call", callee |-> callee, arguments |-> arguments,
     location |-> location]
ExprFunction(parameters, block, location) ==
    [tag |-> "Function", parameters |-> parameters, block |-> block,
     location |-> location]

\* Expression::location
ExpressionLocation(e) ==
    CASE e.tag = "Identifier" -> e.identifier.location
      [] e.tag = "Literal" -> e.literal.location
      [] OTHER -> e.location

StatementsBlock(statements, location) ==
    [statements |-> statements, location |-> location]

StmtExpression(location, expression) ==
    [tag |-> "Expression", location |-> location, expression |-> expression]
StmtReturn(location, return_value) ==
    [tag |-> "Return", location |-> location, return_value |-> return_value]
StmtBreak(location) == [tag |-> "Break", location |-> location]
StmtContinue(location) == [tag |-> "Continue", location |-> location]
StmtVar(location, name, value) ==
    [tag |-> "Var", location |-> location, name |-> name, value |-> value]

(***************************************************************************)
(* parser.rs                                                               *)
(*                                                                         *)
(* A Parser is its Peekable<Lexer>: the lexer and the buffered peek        *)
(* (<< >> when nothing is buffered, << t >> for a buffered Option<Token>). *)
(* Three history fields record what the run did with the tokens: pulled    *)
(* (every token the lexer handed over), consumed (every token              *)
(* Peekable::next returned) and dropped (the tokens the catch-all arm of   *)
(* the climbing loop took and left out of the tree).                       *)
(***************************************************************************)

\* Parser::new / Parser::from
ParserNew(src) ==
    [lexer |-> LexerNew(src), peeked |-> << >>,
     pulled |-> << >>, consumed |-> << >>, dropped |-> << >>, failures |-> << >>,
     starved |-> 0]

\* peek that pulls a token from the lexer on every call: the slip of not
\* looking at the token it already holds.
PeekablePeek_refill(ps) ==
    The({ [ps |-> [ps EXCEPT !.lexer = r.lexer,
                             !.peeked = << r.token >>,
                             !.pulled = ps.pulled \o r.token],
           token |-> r.token]
          : r \in {Lexer_next(ps.lexer)} })

\* Peekable::peek
PeekablePeek(ps) ==
    IF ps.peeked # << >>
    THEN [ps |-> ps, token |-> ps.peeked[1]]
    ELSE The({ [ps |-> [ps EXCEPT !.lexer = r.lexer,
                                  !.peeked = << r.token >>,
                                  !.pulled = ps.pulled \o r.token],
                token |-> r.token]
               : r \in {Lexer_next(ps.lexer)} })

\* Peekable::next
PeekableNext(ps) ==
    IF ps.peeked # << >>
    THEN [ps |-> [ps EXCEPT !.peeked = << >>,
                            !.consumed = ps.consumed \o ps.peeked[1],
                            !.starved = IF ps.peeked[1] = None
                                        THEN ps.starved + 1 ELSE ps.starved],
          token |-> ps.peeked[1]]
    ELSE The({ [ps |-> [ps EXCEPT !.lexer = r.lexer,
                                  !.pulled = ps.pulled \o r.token,
                                  !.consumed = ps.consumed \o r.token,
                                  !.starved = IF r.token = None
                                              THEN ps.starved + 1 ELSE ps.starved],
                token |-> r.token]
               : r \in {Lexer_next(ps.lexer)} })

\* ParseError
ParseError(expected, got) == [expected |-> expected, got |-> got]

NoValue == [tag |-> "NoValue"]
NoError == ParseError("", None)

\* ParseResult<T>
Ok(ps, val) == [ps |-> ps, ok |-> TRUE, val |-> val, error |-> NoError]
\* Err(ParseError { expected, got }); failures keeps every ParseError built
\* in the run, with the number of tokens pulled by then
Err(ps, expected, got) ==
    [ps |-> [ps EXCEPT !.failures =
                Append(ps.failures, [error |-> ParseError(expected, got),
                                     pulls |-> Len(ps.pulled)])],
     ok |-> FALSE, val |-> NoValue, error |-> ParseError(expected, got)]

\* Parser::consume_identifier
consume_identifier(ps) ==
    The({ IF r.token # None
          THEN IF r.token[1].raw.tag = "Identifier"
               THEN Ok(r.ps, IdentifierAST(r.token[1].raw.text, r.token[1].location))
               ELSE Err(r.ps, "identifier", Some(r.token[1]))
          ELSE Err(r.ps, "identifier", None)
          : r \in {PeekableNext(ps)} })

\* consume_and_return that reports no token on a mismatch: the slip of
\* building the error of the exhausted case in both failure arms.
consume_and_return_got_none(ps, expected) ==
    The({ IF r.token # None /\ r.token[1].raw = expected
          THEN Ok(r.ps, r.token[1])
          ELSE Err(r.ps, RawTokenDisplay(expected), None)
          : r \in {PeekableNext(ps)} })

\* Parser::consume_and_return
consume_and_return(ps, expected) ==
    The({ IF r.token # None
          THEN IF r.token[1].raw = expected
               THEN Ok(r.ps, r.token[1])
               ELSE Err(r.ps, RawTokenDisplay(expected), Some(r.token[1]))
          ELSE Err(r.ps, RawTokenDisplay(expected), None)
          : r \in {PeekableNext(ps)} })

\* consume that lets a mismatch pass: the slip of dropping the result of
\* consume_and_return instead of returning its error.
consume_unchecked(ps, expected) ==
    The({ Ok(r.ps, NoValue) : r \in {consume_and_return(ps, expected)} })

\* Parser::consume
consume(ps, expected) ==
    The({ IF r.ok THEN Ok(r.ps, NoValue) ELSE r
          : r \in {consume_and_return(ps, expected)} })

\* is_some_and that looks at no token: the slip of testing is_some alone,
\* which takes the closer for the start of one more element.
IsSomeAny(token, raw) == token # None

\* Option::is_some_and with token.raw == raw / token.raw != raw
IsSome(token, raw) == token # None /\ token[1].raw = raw
IsSomeOther(token, raw) == token # None /\ token[1].raw # raw

\* the token is Some punctuation of one of the kinds
IsPunctuationIn(token, kinds) ==
    token # None /\ token[1].raw.tag = "Punctuation" /\ token[1].raw.kind \in kinds

\* the token is Some keyword of one of the kinds
IsKeywordIn(token, kinds) ==
    token # None /\ token[1].raw.tag = "Keyword" /\ token[1].raw.kind \in kinds

\* self.lexer.peek().map(|t| t.clone().into()).unwrap_or(Precedence::Lowest)
PeekPrecedence(token) ==
    IF token # None THEN TokenPrecedence(token[1]) ELSE Lowest

RECURSIVE parse_expression(_, _)
RECURSIVE parse_expression_loop(_, _, _)
RECURSIVE call_arguments_loop(_, _)
RECURSIVE parse_primary_expression(_)
RECURSIVE function_parameters_loop(_, _)
RECURSIVE parse_statement(_)
RECURSIVE parse_statements_block(_)
RECURSIVE statements_block_loop(_, _)

\* Parser::parse_expression
parse_expression(ps, precedence) ==
    The({ IF ~left.ok THEN left
          ELSE parse_expression_loop(left.ps, precedence, left.val)
          : left \in {parse_primary_expression(ps)} })

\* one arm of the match in the loop of parse_expression, for the token nx
\* that self.lexer.next() returned
parse_expression_arm(nx, precedence, left) ==
    IF IsPunctuationIn(nx.token, {"Plus", "Minus", "Star", "Slash"})
    THEN The({ IF ~right.ok THEN right
               ELSE parse_expression_loop(right.ps, precedence,
                      ExprBinary(left, right.val, nx.token[1],
                          Location(ExpressionLocation(left).start,
                                   ExpressionLocation(right.val).end)))
               : right \in {parse_expression(nx.ps,
                                             RawTokenPrecedence(nx.token[1].raw))} })
    ELSE IF IsPunctuationIn(nx.token, {"PlusPlus", "MinusMinus"})
    THEN parse_expression_loop(nx.ps, precedence,
            ExprPostfix(left, nx.token[1],
                Location(ExpressionLocation(left).start, nx.token[1].location.end)))
    ELSE IF IsPunctuationIn(nx.token, {"Dot"})
    THEN The({ IF ~right.ok THEN right
               ELSE parse_expression_loop(right.ps, precedence,
                      ExprFieldAccess(left, right.val,
                          Location(ExpressionLocation(left).start,
                                   right.val.location.end)))
               : right \in {consume_identifier(nx.ps)} })
    ELSE IF IsPunctuationIn(nx.token, {"OpenParent"})
    THEN The({ IF ~arguments.ok THEN arguments
               ELSE The({ IF ~close.ok THEN close
                          ELSE parse_expression_loop(close.ps, precedence,
                                 ExprCall(left, arguments.val,
                                     Location(ExpressionLocation(left).start,
                                              close.val.location.end)))
                          : close \in {consume_and_return(arguments.ps,
                                           Punctuation("CloseParent"))} })
               : arguments \in {call_arguments_loop(nx.ps, << >>)} })
    \* _ => break: the token next() took is in no node
    ELSE Ok([nx.ps EXCEPT !.dropped = nx.ps.dropped \o nx.token], left)

\* the while loop of Parser::parse_expression, entered with left
parse_expression_loop(ps, precedence, left) ==
    The({ IF ~(precedence < PeekPrecedence(pk.token)) THEN Ok(pk.ps, left)
          ELSE parse_expression_arm(PeekableNext(pk.ps), precedence, left)
          : pk \in {PeekablePeek(ps)} })

\* if peek is a comma { next(); } else { break; }, after an element of a
\* comma-separated list: [ps, again]
comma_or_break(ps) ==
    The({ IF IsSome(pk.token, Punctuation("Comma"))
          THEN [ps |-> PeekableNext(pk.ps).ps, again |-> TRUE]
          ELSE [ps |-> pk.ps, again |-> FALSE]
          : pk \in {PeekablePeek(ps)} })

\* the while loop over the arguments of a call
call_arguments_loop(ps, arguments) ==
    The({ IF IsSomeOther(pk.token, Punctuation("CloseParent"))
          THEN The({ IF ~argument.ok THEN argument
                     ELSE The({ IF c.again
                                THEN call_arguments_loop(c.ps,
                                        Append(arguments, argument.val))
                                ELSE Ok(c.ps, Append(arguments, argument.val))
                                : c \in {comma_or_break(argument.ps)} })
                     : argument \in {parse_expression(pk.ps, Lowest)} })
          ELSE Ok(pk.ps, arguments)
          : pk \in {PeekablePeek(ps)} })

\* the arm of parse_primary_expression for ( : the inner expression, then )
parenthesized_expression(ps) ==
    The({ IF ~inner.ok THEN inner
          ELSE The({ IF ~close.ok THEN close ELSE Ok(close.ps, inner.val)
                     : close \in {consume(inner.ps, Punctuation("CloseParent"))} })
          : inner \in {parse_expression(ps, Lowest)} })

\* the arm of parse_primary_expression for fun, after the keyword
function_expression(ps, start) ==
    The({ IF ~open.ok THEN open
          ELSE The({ IF ~parameters.ok THEN parameters
                     ELSE The({ IF ~close.ok THEN close
                                ELSE The({ IF ~block.ok THEN block
                                           ELSE Ok(block.ps,
                                                  ExprFunction(parameters.val,
                                                      block.val,
                                                      Location(start,
                                                          block.val.location.end)))
                                           : block \in
                                               {parse_statements_block(close.ps)} })
                                : close \in {consume(parameters.ps,
                                                Punctuation("CloseParent"))} })
                     : parameters \in {function_parameters_loop(open.ps, << >>)} })
          : open \in {consume(ps, Punctuation("OpenParent"))} })

\* Parser::parse_primary_expression
parse_primary_expression(ps) ==
    The({ IF IsPunctuationIn(nx.token, {"OpenParent"})
          THEN parenthesized_expression(nx.ps)
          ELSE IF nx.token # None /\ nx.token[1].raw.tag = "Identifier"
          THEN Ok(nx.ps, ExprIdentifier(IdentifierAST(nx.token[1].raw.text,
                                                      nx.token[1].location)))
          ELSE IF nx.token # None
                  /\ nx.token[1].raw.tag \in
                       {"IntegerLiteral", "BoolLiteral", "StringLiteral", "CharLiteral"}
          THEN Ok(nx.ps, ExprLiteral(Literal(nx.token[1].raw, nx.token[1].location)))
          ELSE IF IsKeywordIn(nx.token, {"Fun"})
          THEN function_expression(nx.ps, nx.token[1].location.start)
          ELSE Err(nx.ps, "expression", nx.token)
          : nx \in {PeekableNext(ps)} })

\* the while loop over the parameters of a function literal
function_parameters_loop(ps, parameters) ==
    The({ IF IsSomeOther(pk.token, Punctuation("CloseParent"))
          THEN The({ IF ~parameter.ok THEN parameter
                     ELSE The({ IF c.again
                                THEN function_parameters_loop(c.ps,
                                        Append(parameters, parameter.val))
                                ELSE Ok(c.ps, Append(parameters, parameter.val))
                                : c \in {comma_or_break(parameter.ps)} })
                     : parameter \in {consume_identifier(pk.ps)} })
          ELSE Ok(pk.ps, parameters)
          : pk \in {PeekablePeek(ps)} })

\* Location { start, end: self.consume_and_return(Semicolon)?.location.end }:
\* the semicolon that ends a statement, and the location of the statement
statement_end(ps, start) ==
    The({ IF ~semi.ok THEN semi
          ELSE Ok(semi.ps, Location(start, semi.val.location.end))
          : semi \in {consume_and_return(ps, Punctuation("Semicolon"))} })

\* the arms of parse_statement for continue and break, after the keyword
keyword_statement(ps, start, kind) ==
    The({ IF ~end.ok THEN end
          ELSE IF kind = "Continue" THEN Ok(end.ps, StmtContinue(end.val))
          ELSE Ok(end.ps, StmtBreak(end.val))
          : end \in {statement_end(ps, start)} })

\* the arm of parse_statement for return, after the keyword
return_statement(ps, start) ==
    The({ IF ~return_value.ok THEN return_value
          ELSE The({ IF ~end.ok THEN end
                     ELSE Ok(end.ps, StmtReturn(end.val, return_value.val))
                     : end \in {statement_end(return_value.ps, start)} })
          : return_value \in {parse_expression(ps, Lowest)} })

\* the arm of parse_statement for var, after the keyword
var_statement(ps, start) ==
    The({ IF ~name.ok THEN name
          ELSE The({ IF ~eq.ok THEN eq
                     ELSE The({ IF ~value.ok THEN value
                                ELSE The({ IF ~end.ok THEN end
                                           ELSE Ok(end.ps,
                                                  StmtVar(end.val, name.val,
                                                          value.val))
                                           : end \in
                                               {statement_end(value.ps, start)} })
                                : value \in {parse_expression(eq.ps, Lowest)} })
                     : eq \in {consume(name.ps, Punctuation("Eq"))} })
          : name \in {consume_identifier(ps)} })

\* the last arm of parse_statement: an expression statement
expression_statement(ps) ==
    The({ IF ~expression.ok THEN expression
          ELSE The({ IF ~end.ok THEN end
                     ELSE Ok(end.ps, StmtExpression(end.val, expression.val))
                     : end \in {statement_end(expression.ps,
                                   ExpressionLocation(expression.val).start)} })
          : expression \in {parse_expression(ps, Lowest)} })

\* Parser::parse_statement
parse_statement(ps) ==
    The({ IF IsKeywordIn(pk.token, {"Continue", "Break"})
          THEN keyword_statement(PeekableNext(pk.ps).ps,
                                 pk.token[1].location.start, pk.token[1].raw.kind)
          ELSE IF IsKeywordIn(pk.token, {"Return"})
          THEN return_statement(PeekableNext(pk.ps).ps, pk.token[1].location.start)
          ELSE IF IsKeywordIn(pk.token, {"Var"})
          THEN var_statement(PeekableNext(pk.ps).ps, pk.token[1].location.start)
          ELSE expression_statement(pk.ps)
          : pk \in {PeekablePeek(ps)} })

\* Parser::parse_statements_block
parse_statements_block(ps) ==
    The({ IF ~open.ok THEN open
          ELSE The({ IF ~statements.ok THEN statements
                     ELSE The({ IF ~close.ok THEN close
                                ELSE Ok(close.ps,
                                        StatementsBlock(statements.val,
                                            Location(open.val.location.start,
                                                     close.val.location.end)))
                                : close \in {consume_and_return(statements.ps,
                                                Punctuation("CloseBrace"))} })
                     : statements \in {statements_block_loop(open.ps, << >>)} })
          : open \in {consume_and_return(ps, Punctuation("OpenBrace"))} })

\* the while loop of Parser::parse_statements_block
statements_block_loop(ps, statements) ==
    The({ IF IsSomeOther(pk.token, Punctuation("CloseBrace"))
          THEN The({ IF ~statement.ok THEN statement
                     ELSE statements_block_loop(statement.ps,
                                                Append(statements, statement.val))
                     : statement \in {parse_statement(pk.ps)} })
          ELSE Ok(pk.ps, statements)
          : pk \in {PeekablePeek(ps)} })

\* the loop of Parser::parse gone round once at most: the slip of an if
\* in the place of the while.
parse_loop_once(ps, statements) ==
    The({ IF pk.token # None
          THEN The({ IF ~statement.ok THEN statement
                     ELSE Ok(statement.ps, Append(statements, statement.val))
                     : statement \in {parse_statement(pk.ps)} })
          ELSE Ok(pk.ps, statements)
          : pk \in {PeekablePeek(ps)} })

RECURSIVE parse_loop(_, _)
\* the while loop of Parser::parse
parse_loop(ps, statements) ==
    The({ IF pk.token # None
          THEN The({ IF ~statement.ok THEN statement
                     ELSE parse_loop(statement.ps, Append(statements, statement.val))
                     : statement \in {parse_statement(pk.ps)} })
          ELSE Ok(pk.ps, statements)
          : pk \in {PeekablePeek(ps)} })

\* Parser::parse
parse(ps) == parse_loop(ps, << >>)

(***************************************************************************)
(* The runs.  A source is handed either to a Lexer that is iterated        *)
(* directly, call by call, or to a fresh Parser on which one entry point   *)
(* (parse, parse_statement, parse_expression) is run to its return.        *)
(***************************************************************************)
NoOutcome ==
    [op |-> "none", result |-> "none", value |-> NoValue, error |-> NoError,
     pulled |-> << >>, consumed |-> << >>, dropped |-> << >>, failures |-> << >>,
     starved |-> 0, lexer |-> LexerNew(<< >>)]

\* What the caller of an entry point gets: Ok(value), Err(error), or the
\* panic of the lexer's unwrap(), which unwinds through the parser.
RunOutcome(op, r) ==
    [op |-> op,
     result |-> IF r.ps.lexer.panicked THEN "Panic"
                ELSE IF r.ok THEN "Ok" ELSE "Err",
     value |-> r.val, error |-> r.error,
     pulled |-> r.ps.pulled, consumed |-> r.ps.consumed, dropped |-> r.ps.dropped,
     failures |-> r.ps.failures, starved |-> r.ps.starved, lexer |-> r.ps.lexer]

\* lexer.next()
LexerNext ==
    /\ outcome.op = "none"
    /\ Len(emitted) < Len(source) + MaxCallsOver
    /\ LET r == Lexer_next(lexer)
       IN  /\ lexer' = r.lexer
           /\ emitted' = Append(emitted, r.token)
    /\ UNCHANGED <<source, outcome>>

\* Parser::new(source).parse()
Parse ==
    /\ outcome.op = "none" /\ emitted = << >>
    /\ outcome' = RunOutcome("parse", parse(ParserNew(source)))
    /\ UNCHANGED <<source, lexer, emitted>>

\* Parser::new(source).parse_statement()
ParseStatement ==
    /\ outcome.op = "none" /\ emitted = << >>
    /\ outcome' = RunOutcome("parse_statement", parse_statement(ParserNew(source)))
    /\ UNCHANGED <<source, lexer, emitted>>

\* Parser::new(source).parse_expression(Precedence::Lowest)
ParseExpression ==
    /\ outcome.op = "none" /\ emitted = << >>
    /\ outcome' = RunOutcome("parse_expression",
                             parse_expression(ParserNew(source), Lowest))
    /\ UNCHANGED <<source, lexer, emitted>>

\* Parser::new(source).parse_statements_block()
ParseStatementsBlock ==
    /\ outcome.op = "none" /\ emitted = << >>
    /\ outcome' = RunOutcome("parse_statements_block",
                             parse_statements_block(ParserNew(source)))
    /\ UNCHANGED <<source, lexer, emitted>>

Next ==
    LexerNext \/ Parse \/ ParseStatement \/ ParseExpression \/ ParseStatementsBlock

InitWith(sources) ==
    /\ source \in sources
    /\ lexer = LexerNew(source)
    /\ emitted = << >>
    /\ outcome = NoOutcome

(***************************************************************************)
(* The sources of the runs.                                                *)
(***************************************************************************)
SeqsUpTo(S, n) == UNION {[1..k -> S] : k \in 0..n}

RECURSIVE Join(_, _)
\* the lexemes ws, one after the other, sep between two of them
Join(ws, sep) ==
    IF ws = << >> THEN << >>
    ELSE IF Len(ws) = 1 THEN ws[1]
    ELSE ws[1] \o sep \o Join(Tail(ws), sep)

\* Character by character: an identifier character, a digit, the operator
\* characters, the double quote, a blank, characters no arm recognizes
\* (one of them three bytes long), and U+0000.
LexAlphabet ==
    {"a", "1", "+", "-", "*", "/", "=", "\"", " ", "@", "U+20AC", NUL}

CharSources == SeqsUpTo(LexAlphabet, MaxLen)

\* Lexeme by lexeme, a blank between two lexemes.
ParserLexemes ==
    { <<"a">>, <<"1">>, <<"+">>, <<"*">>, <<"(">>, <<")">>, <<";">>,
      <<",">>, <<"+", "=">>, <<"@">>, <<"\"">> }

LexemeSources == {Join(ws, <<" ">>) : ws \in SeqsUpTo(ParserLexemes, MaxToks)}

\* var NAME = EXPR ; for a few names and well-formed expressions
VarNames == { <<"a">>, <<"x", "1">> }
VarExpressions ==
    { << <<"1">> >>, << <<"a">> >>, << <<"a">>, <<"+">>, <<"1">> >>,
      << <<"(">>, <<"a">>, <<")">> >> }

VarSource(name, expression, sep) ==
    Join(<< <<"v", "a", "r">>, name, <<"=">> >> \o expression \o << <<";">> >>, sep)

VarSources ==
    {VarSource(f[1], f[2], <<" ">>) : f \in VarNames \X VarExpressions}

ParserSources == LexemeSources \cup VarSources

\* Operator chains: operand (operator operand)*, with and without blanks.
ChainOperands == {"a", "b", "1"}
ChainOperators == {"+", "-", "*", "/"}

IsChain(items) ==
    /\ Len(items) % 2 = 1
    /\ \A i \in 1..Len(items) :
         items[i] \in (IF i % 2 = 1 THEN ChainOperands ELSE ChainOperators)

Chains ==
    {items \in UNION {[1..(2 * k + 1) -> ChainOperands \cup ChainOperators] :
                          k \in 0..MaxOps} : IsChain(items)}

ChainSources ==
    {Join([i \in 1..Len(c) |-> << c[i] >>], sep) :
        c \in Chains, sep \in {<< >>, <<" ">>}}

\* Statements: what may lead a statement (nothing, a keyword, var and its
\* name, an opening parenthesis, a parenthesized operand), then a few
\* lexemes of expressions.
StatementHeads ==
    { << >>, << <<"v", "a", "r">> >>, << <<"v", "a", "r">>, <<"x">> >>,
      << <<"r", "e", "t", "u", "r", "n">> >>, << <<"b", "r", "e", "a", "k">> >>,
      << <<"c", "o", "n", "t", "i", "n", "u", "e">> >>, << <<"(">> >>,
      << <<"(">>, <<"x">>, <<")">> >> }

StatementLexemes ==
    { <<"x">>, <<"5">>, <<";">>, <<"(">>, <<")">>, <<"=">>, <<"+">> }

StatementSources ==
    {Join(h \o ws, <<" ">>) :
        h \in StatementHeads, ws \in SeqsUpTo(StatementLexemes, MaxStmtToks)}

\* Calls: a callee and ( , then a few lexemes of argument lists, among
\* them the double quote, whose token the lexer repeats.
CallLexemes == { <<"x">>, <<"5">>, <<",">>, <<")">>, <<"(">>, <<"\"">> }

CallSources ==
    {Join(<< <<"a">>, <<"(">> >> \o ws, <<" ">>) :
        ws \in SeqsUpTo(CallLexemes, MaxCallToks)}

\* Function literals: fun ( or fun ( ) { , then a few lexemes of parameter
\* lists and statements blocks.
FunctionHeads ==
    { << <<"f", "u", "n">>, <<"(">> >>,
      << <<"f", "u", "n">>, <<"(">>, <<")">>, <<"{">> >> }

FunctionLexemes ==
    { <<"x">>, <<",">>, <<")">>, <<"{">>, <<"}">>, <<";">>, <<"\"">> }

FunctionSources ==
    {Join(h \o ws, <<" ">>) :
        h \in FunctionHeads, ws \in SeqsUpTo(FunctionLexemes, MaxFunToks)}

NestedSources == CallSources \cup FunctionSources

\* Keyword spellings (and true, false), with a few characters before and
\* after them: characters that go on an identifier run and ones that end it.
AffixAlphabet == {"x", "1", "_", " ", "+"}

KeywordSources ==
    {pre \o e[1] \o post :
        e \in KEYWORDS, pre \in SeqsUpTo(AffixAlphabet, MaxAffix),
        post \in SeqsUpTo(AffixAlphabet, MaxAffix)}

\* Sources of whitespace characters, every one of the lexer's set, and of
\* one character that is not whitespace.
BlankSources == SeqsUpTo(WhitespaceChars \cup {"a"}, MaxBlanks)

\* Sources of the operator characters, = , an identifier character and a
\* blank.
OperatorAlphabet == {"+", "-", "*", "/", "=", "a", " "}

OperatorSources == SeqsUpTo(OperatorAlphabet, MaxOpChars)

\* Statements blocks: { , then a few lexemes of expression statements and
\* the closing brace.
BlockLexemes == { <<"x">>, <<"5">>, <<";">>, <<"}">>, <<"+">> }

BlockSources ==
    {Join(<< <<"{">> >> \o ws, <<" ">>) : ws \in SeqsUpTo(BlockLexemes, MaxBlockToks)}

\* Numbers: a few digits, dots and blanks, then nothing, or the digits of
\* u64::MAX, or the digits of u64::MAX + 1, these last also after a blank.
NumberAlphabet == {"0", "1", "5", ".", " "}

U64MaxText ==
    <<"1", "8", "4", "4", "6", "7", "4", "4", "0", "7",
      "3", "7", "0", "9", "5", "5", "1", "6", "1", "5">>

U64OverText ==
    <<"1", "8", "4", "4", "6", "7", "4", "4", "0", "7",
      "3", "7", "0", "9", "5", "5", "1", "6", "1", "6">>

NumberSources ==
    { p \o b : p \in SeqsUpTo(NumberAlphabet, MaxNumChars),
               b \in {<< >>, U64MaxText, U64OverText, <<" ">> \o U64OverText} }

\* Postfix operators: operands, + , * , ++ and -- , with and without blanks.
PostfixLexemes == { <<"a">>, <<"b">>, <<"+">>, <<"*">>, <<"+", "+">>, <<"-", "-">> }

PostfixSources ==
    {Join(ws, sep) : ws \in SeqsUpTo(PostfixLexemes, MaxPostfixToks),
                     sep \in {<< >>, <<" ">>}}

Init == InitWith(CharSources)
InitParser == InitWith(ParserSources)
InitChain == InitWith(ChainSources)
InitStatement == InitWith(StatementSources)
InitNested == InitWith(NestedSources)
InitKeyword == InitWith(KeywordSources)
InitBlank == InitWith(BlankSources)
InitOperator == InitWith(OperatorSources)
InitBlock == InitWith(BlockSources)
InitNumber == InitWith(NumberSources)
InitPostfix == InitWith(PostfixSources)

Spec == Init /\ [][Next]_vars
SpecParser == InitParser /\ [][Next]_vars
SpecChain == InitChain /\ [][Next]_vars
SpecStatement == InitStatement /\ [][Next]_vars
SpecNested == InitNested /\ [][Next]_vars
SpecKeyword == InitKeyword /\ [][Next]_vars
SpecBlank == InitBlank /\ [][Next]_vars
SpecOperator == InitOperator /\ [][Next]_vars
SpecBlock == InitBlock /\ [][Next]_vars
SpecNumber == InitNumber /\ [][Next]_vars
SpecPostfix == InitPostfix /\ [][Next]_vars

TypeOK ==
    /\ source \in Seq(Char)
    /\ lexer.offset \in 0..ByteLen(source)
    /\ Len(emitted) <= Len(source) + MaxCallsOver
    /\ outcome.op \in {"none", "parse", "parse_statement", "parse_expression",
                       "parse_statements_block"}
    /\ outcome.result \in {"none", "Ok", "Err", "Panic"}

(***************************************************************************)
(* Vocabulary of the properties.                                           *)
(***************************************************************************)
Last(seq) == seq[Len(seq)]
Range(seq) == {seq[i] : i \in 1..Len(seq)}

\* A character no arm of Lexer::next recognizes.
Unrecognized(c) ==
    /\ c \notin PunctuationChars \cup WhitespaceChars \cup {NUL}
    /\ ~is_id_start(c)
    /\ ~is_ascii_digit(c)

\* The character of text s that starts at byte offset o.
CharAt(s, o) == str_slice(s, o, ByteLen(s))[1]

TwoCharPunctuation ==
    {"PlusPlus", "PlusEq", "MinusMinus", "MinusEq", "StarStar", "StarEq", "SlashEq"}

\* The UTF-8 length of the lexeme of a token, for the kinds whose lexeme
\* the token itself determines.
LexemeLen(raw) ==
    CASE raw.tag = "Punctuation" ->
            IF raw.kind \in TwoCharPunctuation THEN 2 ELSE 1
      [] raw.tag = "UnexpectedChar" -> len_utf8(raw.kind)
      [] raw.tag = "Identifier" -> ByteLen(raw.text)
      [] raw.tag = "BoolLiteral" -> IF raw.kind = "true" THEN 4 ELSE 5

RECURSIVE Shape(_)
\* An expression without its locations: a leaf with the raw token it was
\* lifted from, or a binary node with the kind of its operator.
Shape(e) ==
    CASE e.tag = "Binary" ->
            [tag |-> "Binary", left |-> Shape(e.left),
             operator |-> e.operator.raw.kind, right |-> Shape(e.right)]
      [] e.tag = "Identifier" ->
            [tag |-> "Leaf", raw |-> Identifier(e.identifier.identifier)]
      [] e.tag = "Literal" -> [tag |-> "Leaf", raw |-> e.literal.raw]
      [] OTHER -> [tag |-> "Other", raw |-> NoValue]

\* The lexemes of a source of one-character lexemes.
ChainItems(src) == SelectSeq(src, LAMBDA c : c # " ")

OperandRaw(c) ==
    IF c \in Digits THEN IntegerLiteral(<< DigitValue(c) >>) ELSE Identifier(<< c >>)

OperatorKind(c) ==
    CASE c = "+" -> "Plus" [] c = "-" -> "Minus"
      [] c = "*" -> "Star" [] c = "/" -> "Slash"

ShapeLeaf(c) == [tag |-> "Leaf", raw |-> OperandRaw(c)]
ShapeBinary(l, c, r) ==
    [tag |-> "Binary", left |-> l, operator |-> OperatorKind(c), right |-> r]

RECURSIVE LeftNested(_)
\* ((x1 o1 x2) o2 x3) ... of the chain x1 o1 x2 o2 x3 ...
LeftNested(items) ==
    IF Len(items) = 1 THEN ShapeLeaf(items[1])
    ELSE ShapeBinary(LeftNested(SubSeq(items, 1, Len(items) - 2)),
                     items[Len(items) - 1], ShapeLeaf(items[Len(items)]))

SameLevel(items) ==
    \/ \A i \in 1..Len(items) : i % 2 = 0 => items[i] \in {"+", "-"}
    \/ \A i \in 1..Len(items) : i % 2 = 0 => items[i] \in {"*", "/"}

RECURSIVE InOrder(_)
\* The raw tokens of a shape, left to right.
InOrder(sh) ==
    IF sh.tag = "Binary"
    THEN InOrder(sh.left) \o << Punctuation(sh.operator) >> \o InOrder(sh.right)
    ELSE << sh.raw >>

RECURSIVE NoSumBelowProduct(_)
\* No * or / node has a + or - node as an operand.
NoSumBelowProduct(sh) ==
    sh.tag = "Binary" =>
        /\ sh.operator \in {"Star", "Slash"} =>
             \A child \in {sh.left, sh.right} :
                ~(child.tag = "Binary" /\ child.operator \in {"Plus", "Minus"})
        /\ NoSumBelowProduct(sh.left)
        /\ NoSumBelowProduct(sh.right)

(***************************************************************************)
(* C1.  Iterating the lexer ends: within Len(source) + 1 calls of          *)
(* Lexer::next one of them has returned None.  Lexer::next does not        *)
(* advance past an unrecognized character or a double quote, so this       *)
(* fails.                                                                  *)
(***************************************************************************)
C1_LexerReachesEnd ==
    Len(emitted) > Len(source) =>
        \E k \in 1..(Len(source) + 1) : emitted[k] = None

(***************************************************************************)
(* C2.  A source that starts with a double quote: the first call returns   *)
(* a StringLiteral whose text is the characters between that quote and     *)
(* the next one (or the end of the input), and with no second quote the    *)
(* call after it returns None.  next_string_token starts its scan on the   *)
(* opening quote itself, so this fails.                                    *)
(***************************************************************************)
C2_StringLiteralScanned ==
    LET rest == Tail(source)
        closing == {k \in 1..Len(rest) : rest[k] = "\""}
        n == IF closing = {} THEN Len(rest)
             ELSE (CHOOSE k \in closing : \A j \in closing : k <= j) - 1
    IN  (source # << >> /\ Head(source) = "\"" /\ emitted # << >>) =>
            /\ emitted[1] # None
            /\ emitted[1][1].raw = StringLiteral(SubSeq(rest, 1, n))
            /\ (closing = {} /\ Len(emitted) >= 2) => emitted[2] = None

(***************************************************************************)
(* C3.  No entry point of the parser returns Ok having taken a token in    *)
(* the climbing loop that it put in no node.  The catch-all arm of the     *)
(* loop does that with += -= *= /= and **, so this fails.                  *)
(***************************************************************************)
C3_NoOperatorDropped ==
    outcome.result = "Ok" => outcome.dropped = << >>

(***************************************************************************)
(* C4, as the claim states it.  Parsing the source ( fails with a          *)
(* ParseError that expects ) and got no token.                             *)
(***************************************************************************)
C4_Original ==
    (source = <<"(">> /\ outcome.op = "parse") =>
        /\ outcome.result = "Err"
        /\ outcome.error = ParseError("')'", None)

(***************************************************************************)
(* C4, amended.  Parsing a source that holds nothing but opening           *)
(* parentheses fails with a ParseError that expects an expression and got  *)
(* no token; the ParseError that expects ) and got no token is the one of  *)
(* a source that ends right after the operand of its parenthesis, as (a.   *)
(***************************************************************************)
C4_UnclosedParenthesis ==
    outcome.op = "parse" =>
        /\ (source # << >> /\ \A i \in 1..Len(source) : source[i] \in {"(", " "}
                /\ source[1] = "(") =>
              /\ outcome.result = "Err"
              /\ outcome.error = ParseError("expression", None)
        /\ source \in {<<"(", " ", "a">>, <<"(", " ", "1">>} =>
              /\ outcome.result = "Err"
              /\ outcome.error = ParseError("')'", None)

C4_Witness ==
    /\ outcome.op = "parse"
    /\ source = <<"(", " ", "a">>
    /\ outcome.error = ParseError("')'", None)

(***************************************************************************)
(* C5.  parse_statement on var NAME = EXPR ; returns Ok with a Var of      *)
(* that name.  The lexer has no arm for = (it is an UnexpectedChar) and    *)
(* Punctuation has no Eq, so this fails.                                   *)
(***************************************************************************)
C5_VarStatementParses ==
    \A f \in VarNames \X VarExpressions :
        (source = VarSource(f[1], f[2], <<" ">>) /\ outcome.op = "parse_statement") =>
            /\ outcome.result = "Ok"
            /\ outcome.value.tag = "Var"
            /\ outcome.value.name.identifier = f[1]

(***************************************************************************)
(* C6.  Every punctuation, identifier, bool and unexpected-character       *)
(* token the lexer emitted is as long as the UTF-8 encoding of its         *)
(* lexeme.  StarStar is emitted with advance_with and an unexpected        *)
(* character with current_char_location, both one byte long, so this       *)
(* fails.                                                                  *)
(***************************************************************************)
C6_LocationLength ==
    \A k \in 1..Len(emitted) :
        (emitted[k] # None
            /\ emitted[k][1].raw.tag \in
                 {"Punctuation", "UnexpectedChar", "Identifier", "BoolLiteral"}) =>
            emitted[k][1].location.end - emitted[k][1].location.start
                = LexemeLen(emitted[k][1].raw)

(***************************************************************************)
(* C7.  The location of an expression parse_expression returned runs from  *)
(* the start of the first token consumed for it to the end of the last.    *)
(* The parentheses of a parenthesized expression are consumed and left     *)
(* out of the location, so this fails, also on the runs that dropped no    *)
(* operator (C3), the only ones it is stated of.                           *)
(***************************************************************************)
C7_ExpressionLocation ==
    (outcome.op = "parse_expression" /\ outcome.result = "Ok"
        /\ outcome.dropped = << >>) =>
        /\ ExpressionLocation(outcome.value).start
             = outcome.consumed[1].location.start
        /\ ExpressionLocation(outcome.value).end
             = Last(outcome.consumed).location.end

(***************************************************************************)
(* C8.  A chain of operands separated by operators that are all + or - ,   *)
(* or all * or / , parses to the left-nested tree: a + b - c is            *)
(* Binary(Binary(a, b, +), c, -).                                          *)
(***************************************************************************)
C8_LeftAssociative ==
    LET items == ChainItems(source)
    IN  (outcome.op = "parse_expression" /\ IsChain(items) /\ SameLevel(items)) =>
            /\ outcome.result = "Ok"
            /\ Shape(outcome.value) = LeftNested(items)

C8_Witness ==
    /\ outcome.op = "parse_expression"
    /\ ChainItems(source) = <<"a", "+", "b", "-", "1">>
    /\ Shape(outcome.value)
         = ShapeBinary(ShapeBinary(ShapeLeaf("a"), "+", ShapeLeaf("b")),
                       "-", ShapeLeaf("1"))

(***************************************************************************)
(* C9.  A chain that mixes + - with * / parses to a tree of its tokens in  *)
(* their order in which no * or / node has a + or - node as an operand:    *)
(* a + b * 1 is the sum of a and the product of b and 1, a * b + 1 is the  *)
(* sum of the product of a and b and 1.                                    *)
(***************************************************************************)
C9_ProductBindsTighter ==
    LET items == ChainItems(source)
    IN  (outcome.op = "parse_expression" /\ IsChain(items)) =>
            /\ outcome.result = "Ok"
            /\ InOrder(Shape(outcome.value))
                 = [i \in 1..Len(items) |->
                       IF i % 2 = 1 THEN OperandRaw(items[i])
                       ELSE Punctuation(OperatorKind(items[i]))]
            /\ NoSumBelowProduct(Shape(outcome.value))
            /\ items = <<"a", "+", "b", "*", "1">> =>
                 Shape(outcome.value)
                   = ShapeBinary(ShapeLeaf("a"), "+",
                                 ShapeBinary(ShapeLeaf("b"), "*", ShapeLeaf("1")))
            /\ items = <<"a", "*", "b", "+", "1">> =>
                 Shape(outcome.value)
                   = ShapeBinary(ShapeBinary(ShapeLeaf("a"), "*", ShapeLeaf("b")),
                                 "+", ShapeLeaf("1"))

C9_Witness ==
    /\ outcome.op = "parse_expression"
    /\ ChainItems(source) = <<"a", "+", "b", "*", "1">>
    /\ outcome.result = "Ok"
    /\ outcome.value.right.tag = "Binary"
    /\ outcome.value.right.operator.raw.kind = "Star"

(***************************************************************************)
(* C10.  An unrecognized character reaches the parser as a token and       *)
(* fails the parse.  Every UnexpectedChar token the lexer emitted carries  *)
(* the unrecognized character of the source at its start offset, a source  *)
(* that starts with an unrecognized character gives that token first, and  *)
(* a run of Parser::parse that pulled such a token returned the            *)
(* ParseError whose got is that token.                                     *)
(***************************************************************************)
C10_UnexpectedCharFailsParse ==
    /\ \A k \in 1..Len(emitted) :
         (emitted[k] # None /\ emitted[k][1].raw.tag = "UnexpectedChar") =>
            /\ Unrecognized(emitted[k][1].raw.kind)
            /\ emitted[k][1].raw.kind = CharAt(source, emitted[k][1].location.start)
    /\ (emitted # << >> /\ source # << >> /\ Unrecognized(source[1])) =>
          /\ emitted[1] # None
          /\ emitted[1][1].raw = UnexpectedChar(source[1])
    /\ outcome.op = "parse" =>
          \A i \in 1..Len(outcome.pulled) :
             outcome.pulled[i].raw.tag = "UnexpectedChar" =>
                /\ outcome.result = "Err"
                /\ outcome.error.got = Some(outcome.pulled[i])

C10_Witness ==
    /\ outcome.op = "parse"
    /\ Len(outcome.pulled) >= 2
    /\ Last(outcome.pulled).raw = UnexpectedChar("@")
    /\ outcome.result = "Err"
    /\ outcome.error.got = Some(Last(outcome.pulled))

C12_StatementLocation ==
    (outcome.op = "parse_statement" /\ outcome.result = "Ok") =>
        /\ outcome.value.tag \in {"Expression", "Return", "Break", "Continue", "Var"}
        /\ Last(outcome.consumed).raw = Punctuation("Semicolon")
        /\ outcome.value.location.end = Last(outcome.consumed).location.end
        /\ outcome.value.location.start = outcome.consumed[1].location.start

(***************************************************************************)
(* C13.  Lexer::next returns None only at the end of the input: after a    *)
(* call that returned None, no character that is not whitespace lies at    *)
(* or after the scan position.  eof() is current == U+0000, the character  *)
(* the lexer also uses for no character, so a U+0000 in the source ends    *)
(* the tokens there and this fails.                                        *)
(***************************************************************************)
C13_NoneOnlyAtEnd ==
    (emitted # << >> /\ Last(emitted) = None /\ ~lexer.panicked) =>
        \A c \in Range(str_slice(source, lexer.offset, ByteLen(source))) :
            is_whitespace(c)

(***************************************************************************)
(* C14.  Parser::parse returns on every source whose digit runs are too    *)
(* short to overflow 64 bits: the run ends in Ok or in Err, and by then    *)
(* the parser has pulled no more tokens than the source has characters    *)
(* that are not whitespace, plus one.  (The loops of the parser go round   *)
(* only by consuming a token; the tokens the lexer repeats without         *)
(* advancing, an unexpected character and the empty string literal of a    *)
(* double quote, are ones no loop goes round on.)                          *)
(***************************************************************************)
C14_ParseReturns ==
    (outcome.op = "parse"
        /\ ~\E i \in 1..Len(source) :
              /\ i + Len(U64MaxDigits) - 1 <= Len(source)
              /\ \A j \in i..(i + Len(U64MaxDigits) - 1) : source[j] \in Digits) =>
        /\ outcome.result \in {"Ok", "Err"}
        /\ Len(outcome.pulled)
             <= Len(SelectSeq(source, LAMBDA c : ~is_whitespace(c))) + 1
        /\ Len(outcome.consumed) <= Len(outcome.pulled)

C14_Witness ==
    /\ outcome.op = "parse"
    /\ source = <<"a", " ", "(", " ", "\"">>
    /\ outcome.result = "Err"
    /\ Len(outcome.pulled) = 4

(***************************************************************************)
(* C15.  There is no error recovery.  A run of Parser::parse that built a  *)
(* ParseError at a consumption point built one only, returned Err with     *)
(* that very error and no Module, and pulled no token after it; a run      *)
(* that returned Ok built none.                                            *)
(***************************************************************************)
C15_NoErrorRecovery ==
    outcome.op = "parse" =>
        /\ outcome.result = "Ok" => outcome.failures = << >>
        /\ outcome.result = "Err" => outcome.value = NoValue
        /\ outcome.failures # << >> =>
             /\ outcome.result = "Err"
             /\ Len(outcome.failures) = 1
             /\ outcome.error = outcome.failures[1].error
             /\ Len(outcome.pulled) = outcome.failures[1].pulls

\* a statement parsed, then a failure in the second one
C15_Witness ==
    /\ outcome.op = "parse"
    /\ source = <<"a", " ", ";", " ", ")">>
    /\ outcome.result = "Err"
    /\ outcome.failures
         = << [error |-> ParseError("expression",
                            Some(Token(Punctuation("CloseParent"), Location(4, 5)))),
               pulls |-> 3] >>

(***************************************************************************)
(* Vocabulary of C16: a source a ( w1 w2 ... of one-character lexemes,     *)
(* one blank between two of them, so that lexeme i is at offset 2 (i - 1). *)
(***************************************************************************)
IsCallSource(src) ==
    LET items == ChainItems(src)
    IN  /\ Len(items) >= 2 /\ items[1] = "a" /\ items[2] = "("
        /\ Len(src) = 2 * Len(items) - 1

\* the lexemes after a (
CallTail(src) == SubSeq(ChainItems(src), 3, Len(ChainItems(src)))

\* the token of lexeme i of the source, for the operands and the comma
CallTokenAt(src, i) ==
    LET c == ChainItems(src)[i]
    IN  Token(IF c = "," THEN Punctuation("Comma") ELSE OperandRaw(c),
              Location(2 * (i - 1), 2 * (i - 1) + 1))

\* operand , operand , ... : operands at the odd places, commas at the even
\* ones, up to place n
Alternates(ws, n) ==
    \A k \in 1..n : IF k % 2 = 1 THEN ws[k] \in {"x", "5"} ELSE ws[k] = ","

\* The parts of C16 that are the same in the claim and in its amended
\* form: a ( args ) with the arguments separated by commas is the Call of
\* a with these arguments in their order, located from the start of a to
\* the end of ) ; two arguments with no comma between them fail.
CallNodeBuilt ==
    LET ws == CallTail(source)
        n == Len(ws)
    IN  (outcome.op = "parse_expression" /\ IsCallSource(source)) =>
          /\ (n >= 1 /\ ws[n] = ")" /\ Alternates(ws, n - 1)) =>
                /\ outcome.result = "Ok"
                /\ outcome.value.tag = "Call"
                /\ Shape(outcome.value.callee) = ShapeLeaf("a")
                /\ Len(outcome.value.arguments) = n \div 2
                /\ \A j \in 1..(n \div 2) :
                      Shape(outcome.value.arguments[j]) = ShapeLeaf(ws[2 * j - 1])
                /\ outcome.value.location = Location(0, 2 * (n + 1) + 1)
          /\ (n >= 2 /\ ws[1] \in {"x", "5"} /\ ws[2] \in {"x", "5"}) =>
                outcome.result = "Err"

(***************************************************************************)
(* C16, as the claim states it: the above, and a list with no ) fails      *)
(* with a ParseError that expects ) .                                      *)
(***************************************************************************)
C16_Original ==
    /\ CallNodeBuilt
    /\ (outcome.op = "parse_expression" /\ IsCallSource(source)
            /\ ")" \notin Range(CallTail(source))) =>
          /\ outcome.result = "Err"
          /\ outcome.error.expected = "')'"

(***************************************************************************)
(* C16, amended.  A list with no ) fails; the ParseError expects ) when    *)
(* the input ends after ( , after an argument or after a comma, and when   *)
(* an argument is followed by a token that is no comma (got is that        *)
(* token); it expects an expression, and got is the token, when a token    *)
(* that starts no expression stands where an argument may start.           *)
(***************************************************************************)
C16_CallNode ==
    LET ws == CallTail(source)
        n == Len(ws)
        breaks == {k \in 1..n : ~Alternates(ws, k)}
        first == CHOOSE k \in breaks : \A j \in breaks : k <= j
    IN  /\ CallNodeBuilt
        /\ (outcome.op = "parse_expression" /\ IsCallSource(source)
                /\ ")" \notin Range(ws)) =>
              /\ outcome.result = "Err"
              /\ outcome.error.expected \in {"')'", "expression"}
              /\ Range(ws) \subseteq {"x", "5", ","} =>
                    outcome.error =
                        IF breaks = {} THEN ParseError("')'", None)
                        ELSE IF first % 2 = 0
                        THEN ParseError("')'", Some(CallTokenAt(source, first + 2)))
                        ELSE ParseError("expression",
                                        Some(CallTokenAt(source, first + 2)))

C16_Witness ==
    /\ outcome.op = "parse_expression"
    /\ source = <<"a", " ", "(", " ", "x", " ", ",", " ", "5", " ", ")">>
    /\ outcome.result = "Ok"
    /\ outcome.value.tag = "Call"
    /\ Len(outcome.value.arguments) = 2
    /\ outcome.value.location = Location(0, 11)

(***************************************************************************)
(* Vocabulary of C17, for sources of one-byte characters.                  *)
(***************************************************************************)
\* the reserved spellings of the claim, each with its keyword
ReservedSpellings ==
    { << <<"f", "u", "n">>, "Fun" >>, << <<"c", "l", "a", "s", "s">>, "Class" >>,
      << <<"w", "h", "i", "l", "e">>, "While" >>, << <<"i", "f">>, "If" >>,
      << <<"e", "l", "s", "e">>, "Else" >>, << <<"v", "a", "r">>, "Var" >>,
      << <<"b", "r", "e", "a", "k">>, "Break" >>,
      << <<"c", "o", "n", "t", "i", "n", "u", "e">>, "Continue" >>,
      << <<"r", "e", "t", "u", "r", "n">>, "Return" >> }

\* the maximal run of identifier characters of src from character i on
IdentifierRun(src, i) ==
    LET ends == {j \in (i - 1)..Len(src) :
                    /\ \A k \in i..j : is_id_continue(src[k])
                    /\ (j < Len(src) => ~is_id_continue(src[j + 1]))}
    IN  SubSeq(src, i, CHOOSE j \in ends : TRUE)

(***************************************************************************)
(* C17.  A token that starts on an identifier start character covers the   *)
(* maximal run of identifier characters from there; it is the Keyword of   *)
(* the run when the run is a reserved spelling, and otherwise no Keyword,  *)
(* and an Identifier with the text of the run unless the run is true or    *)
(* false.  No Identifier token has a reserved spelling; funx is an         *)
(* Identifier.                                                             *)
(***************************************************************************)
C17_KeywordsReserved ==
    \A k \in 1..Len(emitted) :
        emitted[k] # None =>
            LET t == emitted[k][1]
                run == IdentifierRun(source, t.location.start + 1)
            IN  /\ t.raw.tag = "Identifier" =>
                      \A e \in ReservedSpellings : t.raw.text # e[1]
                /\ is_id_start(source[t.location.start + 1]) =>
                      /\ t.location = Location(t.location.start,
                                               t.location.start + Len(run))
                      /\ \A e \in ReservedSpellings :
                            run = e[1] => t.raw = Keyword(e[2])
                      /\ (\A e \in ReservedSpellings : run # e[1]) =>
                            /\ t.raw.tag # "Keyword"
                            /\ run \notin {<<"t", "r", "u", "e">>,
                                           <<"f", "a", "l", "s", "e">>} =>
                                  t.raw = Identifier(run)

C17_Witness ==
    /\ source = <<"f", "u", "n", "x">>
    /\ Len(emitted) = 2
    /\ emitted[1] = Some(Token(Identifier(<<"f", "u", "n", "x">>), Location(0, 4)))
    /\ emitted[2] = None

(***************************************************************************)
(* C18.  On a source that is empty or holds whitespace characters only,    *)
(* every call of Lexer::next, the first one included, returns None, and    *)
(* Parser::parse returns Ok with the empty Module.                         *)
(***************************************************************************)
C18_BlankSource ==
    (\A i \in 1..Len(source) : source[i] \in WhitespaceChars) =>
        /\ \A k \in 1..Len(emitted) : emitted[k] = None
        /\ outcome.op = "parse" =>
              /\ outcome.result = "Ok"
              /\ outcome.value = << >>
              /\ outcome.pulled = << >>

C18_Witness ==
    /\ source = <<"U+2028", "\t">>
    /\ outcome.op = "parse"
    /\ outcome.result = "Ok"
    /\ outcome.value = << >>
    /\ outcome.pulled = << >>

(***************************************************************************)
(* C19.  In the ParseError a run returned, got is none exactly when the    *)
(* call of next() at the failing consumption point found no token (then    *)
(* every token pulled had been consumed before); otherwise got is the      *)
(* token that call returned, the last one pulled and consumed, as the      *)
(* lexer built it.  No other call of next() finds no token.                *)
(***************************************************************************)
C19_GotNoneAtEnd ==
    /\ outcome.result = "Ok" => outcome.starved = 0
    /\ outcome.result = "Err" =>
          /\ outcome.error.got = None <=> outcome.starved > 0
          /\ outcome.starved <= 1
          /\ Len(outcome.consumed) = Len(outcome.pulled)
          /\ outcome.error.got # None =>
                /\ outcome.error.got = Some(Last(outcome.consumed))
                /\ outcome.error.got = Some(Last(outcome.pulled))

C19_Witness ==
    /\ outcome.op = "parse"
    /\ source = <<"a", " ", "+">>
    /\ outcome.error = ParseError("expression", None)
    /\ outcome.starved = 1

(***************************************************************************)
(* Vocabulary of C20: the two-character sequences of the claim, each with  *)
(* its token, and the one-character tokens that are their prefixes.        *)
(***************************************************************************)
TwoCharSequences ==
    { << "+", "+", "PlusPlus" >>, << "+", "=", "PlusEq" >>,
      << "-", "-", "MinusMinus" >>, << "-", "=", "MinusEq" >>,
      << "*", "=", "StarEq" >>, << "/", "=", "SlashEq" >> }

OneCharPrefixes ==
    { << "+", "Plus" >>, << "-", "Minus" >>, << "*", "Star" >>, << "/", "Slash" >> }

\* The characters of text s from byte offset o on.
TextFrom(s, o) == str_slice(s, o, ByteLen(s))

(***************************************************************************)
(* C20.  A token that starts on the first character of ++ += -- -= *= or   *)
(* /= is the token of the sequence, two bytes long, and the call that      *)
(* returned it left the scan position after both characters.  A token      *)
(* Plus, Minus, Star or Slash starts on its character, and what follows    *)
(* the character completes none of the six sequences.                      *)
(***************************************************************************)
C20_TwoCharPriority ==
    \A k \in 1..Len(emitted) :
        emitted[k] # None =>
            LET t == emitted[k][1]
                o == t.location.start
                text == TextFrom(source, o)
                pairs == {q \in TwoCharSequences :
                             Len(text) >= 2 /\ text[1] = q[1] /\ text[2] = q[2]}
            IN  /\ \A q \in pairs :
                      /\ t.raw = Punctuation(q[3])
                      /\ t.location = Location(o, o + 2)
                      /\ k = Len(emitted) => lexer.offset = o + 2
                /\ \A p \in OneCharPrefixes :
                      t.raw = Punctuation(p[2]) =>
                          /\ text[1] = p[1]
                          /\ pairs = {}

C20_Witness ==
    /\ source = <<"+", "=", "=">>
    /\ emitted = << Some(Token(Punctuation("PlusEq"), Location(0, 2))) >>
    /\ lexer.offset = 2

(***************************************************************************)
(* Vocabulary of C21.                                                      *)
(***************************************************************************)
RECURSIVE TokensOf(_, _)
\* The tokens a lexer returns when it is iterated, up to the first None or
\* to n of them.
TokensOf(lx, n) ==
    IF n = 0 THEN << >>
    ELSE LET r == Lexer_next(lx)
         IN  IF r.token = None THEN << >>
             ELSE r.token \o TokensOf(r.lexer, n - 1)

(***************************************************************************)
(* C21.  When Parser::parse returns Ok, the tokens it consumed are all     *)
(* the tokens the lexer returns for the source, in their order, the lexer  *)
(* has no further token, and the statements of the Module lie one after    *)
(* the other in the source, the last one ending with the last token.       *)
(***************************************************************************)
C21_OkOnlyWhenExhausted ==
    (outcome.op = "parse" /\ outcome.result = "Ok") =>
        /\ Lexer_next(outcome.lexer).token = None
        /\ outcome.consumed = outcome.pulled
        /\ outcome.consumed = TokensOf(LexerNew(source), Len(source) + 1)
        /\ \A i \in 1..Len(outcome.value) :
              /\ outcome.value[i].location.start < outcome.value[i].location.end
              /\ i < Len(outcome.value) =>
                    outcome.value[i].location.end
                        <= outcome.value[i + 1].location.start
        /\ outcome.value # << >> =>
              Last(outcome.value).location.end = Last(outcome.consumed).location.end
        /\ outcome.value = << >> <=> outcome.consumed = << >>

C21_Witness ==
    /\ outcome.op = "parse"
    /\ outcome.result = "Ok"
    /\ source = <<"b", "r", "e", "a", "k", " ", ";", " ", "x", " ", ";">>
    /\ Len(outcome.value) = 2
    /\ outcome.value[2].tag = "Expression"
    /\ Len(outcome.consumed) = 4

(***************************************************************************)
(* Vocabulary of C22: a source { w1 w2 ... of one-character lexemes, one   *)
(* blank between two of them, so that lexeme i is at offset 2 (i - 1).     *)
(***************************************************************************)
IsBlockSource(src) ==
    LET items == ChainItems(src)
    IN  /\ Len(items) >= 1 /\ items[1] = "{"
        /\ Len(src) = 2 * Len(items) - 1

\* the lexemes after {
BlockTail(src) == SubSeq(ChainItems(src), 2, Len(ChainItems(src)))

\* operand ; operand ; ... up to place n: n / 2 expression statements
IsStatementList(ws, n) ==
    /\ n % 2 = 0
    /\ \A k \in 1..n : IF k % 2 = 1 THEN ws[k] \in {"x", "5"} ELSE ws[k] = ";"

\* The parts of C22 that are the same in the claim and in its amended
\* form: { statements } is the block of the statements in their order,
\* located from the start of { to the end of } ; the first } that the
\* loop sees ends the block.
BlockBuilt ==
    LET ws == BlockTail(source)
    IN  (outcome.op = "parse_statements_block" /\ IsBlockSource(source)) =>
          /\ \A n \in 0..(Len(ws) - 1) :
                (IsStatementList(ws, n) /\ ws[n + 1] = "}") =>
                   /\ outcome.result = "Ok"
                   /\ Len(outcome.value.statements) = n \div 2
                   /\ \A j \in 1..(n \div 2) :
                         /\ outcome.value.statements[j].tag = "Expression"
                         /\ Shape(outcome.value.statements[j].expression)
                              = ShapeLeaf(ws[2 * j - 1])
                         /\ outcome.value.statements[j].location
                              = Location(2 * (2 * j - 1), 4 * j + 1)
                   /\ outcome.value.location = Location(0, 2 * (n + 1) + 1)
          /\ outcome.result = "Ok" =>
                /\ Last(outcome.consumed).raw = Punctuation("CloseBrace")
                /\ outcome.value.location
                     = Location(0, Last(outcome.consumed).location.end)

(***************************************************************************)
(* C22, as the claim states it: the above, and a source with no } fails    *)
(* with the ParseError that expects } and got no token.                    *)
(***************************************************************************)
C22_Original ==
    /\ BlockBuilt
    /\ (outcome.op = "parse_statements_block" /\ IsBlockSource(source)
            /\ "}" \notin Range(BlockTail(source))) =>
          /\ outcome.result = "Err"
          /\ outcome.error = ParseError("'}'", None)

(***************************************************************************)
(* C22, amended.  A source with no } fails; the ParseError expects } and   *)
(* got no token when the input ends after { or after a statement; when it  *)
(* ends within a statement the ParseError is the one of the statement,     *)
(* which expects ; after an expression.                                    *)
(***************************************************************************)
C22_StatementsBlock ==
    LET ws == BlockTail(source)
        n == Len(ws)
    IN  /\ BlockBuilt
        /\ (outcome.op = "parse_statements_block" /\ IsBlockSource(source)
                /\ "}" \notin Range(ws)) =>
              /\ outcome.result = "Err"
              /\ outcome.error.expected = "'}'" => outcome.error.got = None
              /\ IsStatementList(ws, n) => outcome.error = ParseError("'}'", None)
              /\ (n >= 1 /\ IsStatementList(ws, n - 1) /\ ws[n] \in {"x", "5"}) =>
                    outcome.error = ParseError("';'", None)

C22_Witness ==
    /\ outcome.op = "parse_statements_block"
    /\ source = <<"{", " ", "x", " ", ";", " ", "5", " ", ";", " ", "}">>
    /\ outcome.result = "Ok"
    /\ Len(outcome.value.statements) = 2
    /\ outcome.value.location = Location(0, 11)


RECURSIVE DigitPrefix(_)
\* The ASCII digits a text starts with.
DigitPrefix(text) ==
    IF text # << >> /\ Head(text) \in Digits
    THEN << Head(text) >> \o DigitPrefix(Tail(text))
    ELSE << >>

RECURSIVE Above(_, _)
\* a > b, for two numbers written with the same number of digits
Above(a, b) ==
    /\ a # << >>
    /\ \/ a[1] > b[1]
       \/ a[1] = b[1] /\ Above(Tail(a), Tail(b))

\* The number a digit run writes is above 2^64 - 1 = 18446744073709551615.
ExceedsU64(run) ==
    LET d == [i \in 1..Len(StripZeros(run)) |-> DigitValue(StripZeros(run)[i])]
        max == <<1, 8, 4, 4, 6, 7, 4, 4, 0, 7, 3, 7, 0, 9, 5, 5, 1, 6, 1, 5>>
    IN  Len(d) > 20 \/ (Len(d) = 20 /\ Above(d, max))

\* Writing the value v in decimal and putting zeros in front gives the run.
WritesAs(v, run) ==
    /\ v # << >>
    /\ Len(v) > 1 => v[1] # 0
    /\ Len(v) <= Len(run)
    /\ \A i \in 1..Len(run) :
        IF i <= Len(run) - Len(v) THEN run[i] = "0"
        ELSE \E c \in Digits : run[i] = c /\ DigitValue(c) = v[i - (Len(run) - Len(v))]

\* Some maximal run of ASCII digits of the source is above the u64 range.
HasOverflowingRun(src) ==
    \E i \in 1..Len(src) :
        /\ src[i] \in Digits
        /\ i > 1 => src[i - 1] \notin Digits
        /\ ExceedsU64(DigitPrefix(SubSeq(src, i, Len(src))))

(***************************************************************************)
(* C23.  A token starts on an ASCII digit exactly when it is an            *)
(* IntegerLiteral; the token covers the maximal run of ASCII digits from   *)
(* its start, the run is within the u64 range and the token's value is the *)
(* number the run writes; 1.5 gives IntegerLiteral 1, Dot, IntegerLiteral  *)
(* 5.  The lexer panics only at the end of a digit run above the u64       *)
(* range, and a parser run panics only on a source that has such a run.    *)
(***************************************************************************)
C23_IntegerToken ==
    /\ \A k \in 1..Len(emitted) :
        emitted[k] # None =>
            LET t == emitted[k][1]
                run == DigitPrefix(TextFrom(source, t.location.start))
            IN  /\ (run # << >>) <=> (t.raw.tag = "IntegerLiteral")
                /\ run # << >> =>
                    /\ t.location = Location(t.location.start,
                                             t.location.start + Len(run))
                    /\ ~ExceedsU64(run)
                    /\ WritesAs(t.raw.value, run)
    /\ (source = <<"1", ".", "5">> /\ Len(emitted) >= 3) =>
        SubSeq(emitted, 1, 3) =
            << Some(Token(IntegerLiteral(<< 1 >>), Location(0, 1))),
               Some(Token(Punctuation("Dot"), Location(1, 2))),
               Some(Token(IntegerLiteral(<< 5 >>), Location(2, 3))) >>
    /\ lexer.panicked =>
        \E i \in 1..Len(source) :
            /\ i > 1 => source[i - 1] \notin Digits
            /\ ExceedsU64(DigitPrefix(SubSeq(source, i, Len(source))))
            /\ lexer.offset = ByteLen(SubSeq(source, 1, i - 1))
                                + Len(DigitPrefix(SubSeq(source, i, Len(source))))
    /\ outcome.op # "none" =>
        /\ outcome.result \in {"Ok", "Err", "Panic"}
        /\ outcome.result = "Panic" => HasOverflowingRun(source)

\* 1.5 and then the digits of u64::MAX + 1: three tokens, then the panic
C23_Witness ==
    /\ source = <<"1", ".", "5">> \o <<" ">> \o U64OverText
    /\ Len(emitted) = 4
    /\ emitted[3] = Some(Token(IntegerLiteral(<< 5 >>), Location(2, 3)))
    /\ emitted[4] = None
    /\ lexer.panicked

\* The tokens among the results of the calls of Lexer::next so far.
EmittedTokens == SelectSeq(emitted, LAMBDA e : e # None)

(***************************************************************************)
(* C24.  The tokens the lexer emitted lie in the source one after the      *)
(* other: each has start < end <= the byte length of the source, and each  *)
(* starts at or after the end of the token emitted before it.  The         *)
(* unexpected-character arm of Lexer::next and next_string_token on a      *)
(* double quote return a token without advancing, so the next call         *)
(* returns the same token again, and the string literal of a double quote  *)
(* is empty, with start = end: this fails.                                 *)
(***************************************************************************)
C24_LocationsOrdered ==
    \A k \in 1..Len(EmittedTokens) :
        LET t == EmittedTokens[k][1]
        IN  /\ t.location.start < t.location.end
            /\ t.location.end <= ByteLen(source)
            /\ k > 1 => t.location.start >= EmittedTokens[k - 1][1].location.end

RECURSIVE SubExpressions(_)
\* An expression built of operands, Binary and Postfix nodes, and the
\* expressions inside it.
SubExpressions(e) ==
    {e} \cup
        CASE e.tag = "Binary" -> SubExpressions(e.left) \cup SubExpressions(e.right)
          [] e.tag = "Postfix" -> SubExpressions(e.left)
          [] OTHER -> {}

\* a + b ++ as parse_expression builds it
SumThenPostfix ==
    ExprPostfix(
        ExprBinary(ExprIdentifier(IdentifierAST(<<"a">>, Location(0, 1))),
                   ExprIdentifier(IdentifierAST(<<"b">>, Location(4, 5))),
                   Token(Punctuation("Plus"), Location(2, 3)),
                   Location(0, 5)),
        Token(Punctuation("PlusPlus"), Location(6, 8)),
        Location(0, 8))

(***************************************************************************)
(* C25.  In an expression of operands, + , * , ++ and -- that              *)
(* parse_expression returned, no Binary node has a Postfix node as its     *)
(* right operand; a Postfix node has a left operand and an operator and    *)
(* nothing else, its operator is ++ or -- , its left operand is all of     *)
(* the expression consumed before the operator, from the first token to    *)
(* the token before the operator, and its location runs from the start of  *)
(* the left operand to the end of the operator.  a + b ++ is               *)
(* Postfix(Binary(a, b, +), ++).                                           *)
(***************************************************************************)
C25_PostfixOfWhole ==
    (outcome.op = "parse_expression" /\ outcome.result = "Ok") =>
        /\ \A n \in SubExpressions(outcome.value) :
            /\ n.tag = "Binary" => n.right.tag # "Postfix"
            /\ n.tag = "Postfix" =>
                /\ DOMAIN n = {"tag", "left", "operator", "location"}
                /\ n.operator.raw \in {Punctuation("PlusPlus"), Punctuation("MinusMinus")}
                /\ n.location = Location(ExpressionLocation(n.left).start,
                                         n.operator.location.end)
                /\ ExpressionLocation(n.left).start
                     = outcome.consumed[1].location.start
                /\ \E k \in 2..Len(outcome.consumed) :
                    /\ outcome.consumed[k] = n.operator
                    /\ ExpressionLocation(n.left).end
                         = outcome.consumed[k - 1].location.end
        /\ source = <<"a", " ", "+", " ", "b", " ", "+", "+">> =>
            outcome.value = SumThenPostfix

C25_Witness ==
    /\ source = <<"a", " ", "+", " ", "b", " ", "+", "+">>
    /\ outcome.op = "parse_expression"
    /\ outcome.result = "Ok"
    /\ outcome.value.tag = "Postfix"
    /\ outcome.value.left.tag = "Binary"
    /\ outcome.value.left.right.identifier.identifier = <<"b">>
====
